---- MODULE Spec2Model ----
(***************************************************************************)
(* Hustlr backend: booking lifecycle (backend/routes/bookings.py), rating  *)
(* aggregation (rate_booking) and the WhatsApp webhook idempotency guard   *)
(* (backend/routes/whatsapp.py), over the MongoDB collections of           *)
(* backend/db.py.                                                          *)
(*                                                                         *)
(* Documents are records; a collection is a sequence in insertion order    *)
(* and a document's _id is its position (ids are opaque and compared by    *)
(* equality, as in the test suite's store).  Every handler is an operator  *)
(* from (store, request) to (response, new store), applied atomically by   *)
(* the actions of Spec, SpecRating and SpecWebhook and split at its awaits *)
(* by the actions of the *Race specifications.                             *)
(***************************************************************************)
EXTENDS Integers, Sequences, FiniteSets, TLC

VARIABLES
    bookings,        \* db.bookings
    ratings,         \* db.ratings
    providers,       \* db.service_providers
    conversations,   \* db.conversations
    invocations,     \* calls of invoke_agent so far, per (source, message id)
    first_reply,     \* per (source, message id): the reply_text returned by the
                     \* request that inserted its first record
    result,          \* the response of the last request that returned
    tasks            \* the requests in flight (the *Race specifications)

vars == <<bookings, ratings, providers, conversations, invocations, first_reply,
          result, tasks>>

----------------------------------------------------------------------------
(* Bounds of the model *)

MaxBookings == 2     \* documents in db.bookings
MaxRatings == 3      \* documents in db.ratings
RatedBookings == 2   \* completed bookings SpecRating starts from
MaxConversations == 2 \* documents in db.conversations
RaceTasks == 2       \* requests in flight in the *Race specifications
AggregateRatings == 7 \* ratings one provider receives in SpecAggregate
VerifyRaceTasks == 3  \* requests in flight in SpecVerifyRace

----------------------------------------------------------------------------
(* Values *)

None == "None"

\* models.py: UserRole
CUSTOMER == "customer"
PROVIDER == "provider"
ADMIN == "admin"

\* models.py: BookingStatus
PENDING == "pending"
CONFIRMED == "confirmed"
COMPLETED == "completed"
CANCELLED == "cancelled"

BookingStatus == {PENDING, CONFIRMED, COMPLETED, CANCELLED}

\* the authenticated callers (get_current_user): id and role
Users ==
    { [id |-> "c1", role |-> CUSTOMER], [id |-> "c2", role |-> CUSTOMER],
      [id |-> "u1", role |-> PROVIDER], [id |-> "u2", role |-> PROVIDER],
      [id |-> "adm", role |-> ADMIN] }

CustomerIds == {"c1", "c2"}

\* provider ids a request may name; "p3" is in no store
ProviderIds == {"p1", "p2", "p3"}

\* HTTP response codes (fastapi.status)
HTTP_200_OK == 200
HTTP_400_BAD_REQUEST == 400
HTTP_403_FORBIDDEN == 403
HTTP_404_NOT_FOUND == 404
HTTP_409_CONFLICT == 409
HTTP_500_INTERNAL_SERVER_ERROR == 500

----------------------------------------------------------------------------
(* Dates and times: datetime.strptime and datetime.now *)

\* the outcome of a strptime that raises ValueError
ValueError == -1

\* strptime(s, "%Y-%m-%d").date() as a day number; other strings raise
DayOf == [s \in {"2024-06-01", "2099-01-01"} |->
             IF s = "2024-06-01" THEN 19875 ELSE 47117]

strptime_date(s) == IF s \in DOMAIN DayOf THEN DayOf[s] ELSE ValueError

\* strptime(s, "%H:%M").time() as a minute of the day; other strings raise
MinuteOf == [s \in {"10:00", "14:00"} |-> IF s = "10:00" THEN 600 ELSE 840]

strptime_time(s) == IF s \in DOMAIN MinuteOf THEN MinuteOf[s] ELSE ValueError

\* datetime.combine(date, time) as minutes
combine(day, minute) == day * 1440 + minute

\* datetime.now(): 2024-06-01 14:00
now == combine(19875, 840)

DateInputs == {"2024-06-01", "2099-01-01", "not-a-date"}
TimeInputs == {"10:00", "14:00"}

----------------------------------------------------------------------------
(* Store helpers *)

Ids(coll) == 1..Len(coll)

\* ids of the provider profiles of a user
get_provider_ids_for_user(provs, user_id) ==
    { p \in DOMAIN provs : provs[p].user_id = user_id }

Resp(code, bs) == [code |-> code, bookings |-> bs]

----------------------------------------------------------------------------
(* create_booking: POST /bookings/ *)

\* a conflict lookup that finds nothing
create_conflict_never(bs, provider_id, date, time) == FALSE

\* a conflict lookup that counts bookings of every status
create_conflict_any_status(bs, provider_id, date, time) ==
    \E i \in Ids(bs) : /\ bs[i].provider_id = provider_id
                       /\ bs[i].date = date
                       /\ bs[i].time = time

\* the conflict lookup of create_booking: an active booking on the slot
create_conflict(bs, provider_id, date, time) ==
    \E i \in Ids(bs) : /\ bs[i].provider_id = provider_id
                       /\ bs[i].date = date
                       /\ bs[i].time = time
                       /\ bs[i].status \in {PENDING, CONFIRMED}

\* booking_doc without the overwrite of customer_id: the payload's is kept
booking_doc_payload_customer(booking, current_user) ==
    [customer_id |-> booking.customer_id,
     provider_id |-> booking.provider_id,
     date |-> booking.date,
     time |-> booking.time,
     status |-> PENDING]

\* the document create_booking inserts: the payload with customer_id
\* overwritten by the caller's id and status pending
booking_doc(booking, current_user) ==
    [customer_id |-> current_user.id,
     provider_id |-> booking.provider_id,
     date |-> booking.date,
     time |-> booking.time,
     status |-> PENDING]

\* the checks of create_booking that precede the conflict lookup:
\* the response code of the first one that fails, or 200
create_precheck(provs, booking, current_user) ==
    IF current_user.role # CUSTOMER THEN HTTP_403_FORBIDDEN
    ELSE IF ~(/\ booking.provider_id \in DOMAIN provs
              /\ provs[booking.provider_id].is_verified) THEN HTTP_404_NOT_FOUND
    ELSE IF \/ strptime_date(booking.date) = ValueError
            \/ strptime_time(booking.time) = ValueError THEN HTTP_400_BAD_REQUEST
    ELSE IF combine(strptime_date(booking.date), strptime_time(booking.time)) <= now
         THEN HTTP_400_BAD_REQUEST
    ELSE HTTP_200_OK

create_booking(bs, provs, booking, current_user) ==
    LET pre == create_precheck(provs, booking, current_user) IN
    IF pre # HTTP_200_OK THEN Resp(pre, bs)
    ELSE IF create_conflict(bs, booking.provider_id, booking.date, booking.time)
         THEN Resp(HTTP_409_CONFLICT, bs)
    ELSE Resp(HTTP_200_OK, Append(bs, booking_doc(booking, current_user)))

----------------------------------------------------------------------------
(* update_booking_status: PUT /bookings/{booking_id}/status *)

\* The handler's parameter `status: str` hides the fastapi `status` module
\* inside the function, so each `status.HTTP_...` of its raise statements is
\* an attribute lookup on a str: AttributeError, which nothing catches, and
\* the server answers 500 whatever code the raise names.
status_attr_in_update(code) == HTTP_500_INTERNAL_SERVER_ERROR

valid_statuses == {"pending", "confirmed", "completed", "cancelled"}

update_booking_status(bs, provs, booking_id, status, current_user) ==
    IF booking_id \notin Ids(bs)
    THEN Resp(status_attr_in_update(HTTP_404_NOT_FOUND), bs)
    ELSE IF /\ current_user.role = CUSTOMER
            /\ bs[booking_id].customer_id # current_user.id
    THEN Resp(status_attr_in_update(HTTP_403_FORBIDDEN), bs)
    ELSE IF /\ current_user.role = PROVIDER
            /\ bs[booking_id].provider_id
                   \notin get_provider_ids_for_user(provs, current_user.id)
    THEN Resp(status_attr_in_update(HTTP_403_FORBIDDEN), bs)
    ELSE IF status \notin valid_statuses
    THEN Resp(status_attr_in_update(HTTP_400_BAD_REQUEST), bs)
    ELSE Resp(HTTP_200_OK, [bs EXCEPT ![booking_id].status = status])

----------------------------------------------------------------------------
(* cancel_booking: PUT /bookings/{booking_id}/cancel *)

\* reschedule_conflict without the exclusion of the booking itself
reschedule_conflict_with_self(bs, booking_id, date, time) ==
    \E i \in Ids(bs) : /\ bs[i].provider_id = bs[booking_id].provider_id
                       /\ bs[i].date = date
                       /\ bs[i].time = time
                       /\ bs[i].status \in {PENDING, CONFIRMED}

\* the conflict lookup of the reschedule branch: as create's, minus the
\* booking itself
reschedule_conflict(bs, booking_id, date, time) ==
    \E i \in Ids(bs) : /\ i # booking_id
                       /\ bs[i].provider_id = bs[booking_id].provider_id
                       /\ bs[i].date = date
                       /\ bs[i].time = time
                       /\ bs[i].status \in {PENDING, CONFIRMED}

\* `new_time or booking["time"]`
time_or_existing(new_time, booking) ==
    IF new_time # None THEN new_time ELSE booking.time

\* cancel_booking_check without the test of the booking's status
cancel_booking_check_any_status(bs, booking_id, current_user) ==
    IF booking_id \notin Ids(bs) THEN HTTP_404_NOT_FOUND
    ELSE IF \/ current_user.role # CUSTOMER
            \/ bs[booking_id].customer_id # current_user.id THEN HTTP_403_FORBIDDEN
    ELSE HTTP_200_OK

\* cancel_booking_check with the test of the caller reduced to the role
cancel_booking_check_any_customer(bs, booking_id, current_user) ==
    IF booking_id \notin Ids(bs) THEN HTTP_404_NOT_FOUND
    ELSE IF current_user.role # CUSTOMER THEN HTTP_403_FORBIDDEN
    ELSE IF bs[booking_id].status \in {COMPLETED, CANCELLED} THEN HTTP_400_BAD_REQUEST
    ELSE HTTP_200_OK

\* the checks of cancel_booking on the booking it read: the response code of
\* the first one that fails, or 200
cancel_booking_check(bs, booking_id, current_user) ==
    IF booking_id \notin Ids(bs) THEN HTTP_404_NOT_FOUND
    ELSE IF \/ current_user.role # CUSTOMER
            \/ bs[booking_id].customer_id # current_user.id THEN HTTP_403_FORBIDDEN
    ELSE IF bs[booking_id].status \in {COMPLETED, CANCELLED} THEN HTTP_400_BAD_REQUEST
    ELSE HTTP_200_OK

\* the checks of cancel_booking up to the conflict lookup of the reschedule
\* branch: the response code of the first one that fails, or 200
cancel_precheck(bs, booking_id, req, current_user) ==
    IF cancel_booking_check(bs, booking_id, current_user) # HTTP_200_OK
    THEN cancel_booking_check(bs, booking_id, current_user)
    ELSE IF req.new_date = None THEN HTTP_200_OK
    ELSE IF \/ strptime_date(req.new_date) = ValueError
            \/ strptime_time(time_or_existing(req.new_time, bs[booking_id])) = ValueError
         THEN HTTP_400_BAD_REQUEST
    ELSE IF combine(strptime_date(req.new_date),
                    strptime_time(time_or_existing(req.new_time, bs[booking_id]))) <= now
         THEN HTTP_400_BAD_REQUEST
    ELSE HTTP_200_OK

\* cancel_update whose reschedule branch leaves the status as it is
cancel_update_keep_status(booking, req) ==
    IF req.new_date # None
    THEN [booking EXCEPT !.date = req.new_date,
                         !.time = time_or_existing(req.new_time, booking)]
    ELSE [booking EXCEPT !.status = CANCELLED]

\* update_data applied by update_one: the reschedule branch when new_date is
\* given (the action literal is never read), the cancellation branch otherwise
cancel_update(booking, req) ==
    IF req.new_date # None
    THEN [booking EXCEPT !.date = req.new_date,
                         !.time = time_or_existing(req.new_time, booking),
                         !.status = PENDING]
    ELSE [booking EXCEPT !.status = CANCELLED]

cancel_booking(bs, booking_id, req, current_user) ==
    LET pre == cancel_precheck(bs, booking_id, req, current_user) IN
    IF pre # HTTP_200_OK THEN Resp(pre, bs)
    ELSE IF /\ req.new_date # None
            /\ reschedule_conflict(bs, booking_id, req.new_date,
                                   time_or_existing(req.new_time, bs[booking_id]))
         THEN Resp(HTTP_409_CONFLICT, bs)
    ELSE Resp(HTTP_200_OK,
              [bs EXCEPT ![booking_id] = cancel_update(bs[booking_id], req)])

----------------------------------------------------------------------------
(* rate_booking: POST /bookings/{booking_id}/rate *)

\* db.ratings.find_one({"booking_id": booking_id}) finds a rating
Rated(rs, booking_id) == \E i \in Ids(rs) : rs[i].booking_id = booking_id

\* round(n / d, 2) for a quotient counted in hundredths: nearest, ties to even
round2(n, d) ==
    LET q == n \div d
        r == n % d
    IN IF 2 * r > d THEN q + 1
       ELSE IF 2 * r < d THEN q
       ELSE IF q % 2 = 0 THEN q ELSE q + 1

\* the provider document after one more rating: ratings are kept in
\* hundredths (rating 450 is 4.50)
fold_rating(provider, score) ==
    LET current_rating == provider.rating
        current_total == provider.total_ratings
        new_total == current_total + 1
    IN [provider EXCEPT
           !.rating = round2(current_rating * current_total + 100 * score, new_total),
           !.total_ratings = new_total]

\* rate_booking_check without the test of the booking's status
rate_booking_check_any_status(bs, booking_id, current_user) ==
    IF booking_id \notin Ids(bs) THEN HTTP_404_NOT_FOUND
    ELSE IF \/ current_user.role # CUSTOMER
            \/ bs[booking_id].customer_id # current_user.id THEN HTTP_403_FORBIDDEN
    ELSE HTTP_200_OK

\* the checks of rate_booking on the booking it read: the response code of
\* the first one that fails, or 200
rate_booking_check(bs, booking_id, current_user) ==
    IF booking_id \notin Ids(bs) THEN HTTP_404_NOT_FOUND
    ELSE IF \/ current_user.role # CUSTOMER
            \/ bs[booking_id].customer_id # current_user.id THEN HTTP_403_FORBIDDEN
    ELSE IF bs[booking_id].status # COMPLETED THEN HTTP_400_BAD_REQUEST
    ELSE HTTP_200_OK

\* the checks of the payload against the path, the caller and the booking
rate_payload_check(booking_id, provider_id, rating_data, current_user) ==
    IF rating_data.booking_id # booking_id THEN HTTP_400_BAD_REQUEST
    ELSE IF rating_data.customer_id # current_user.id THEN HTTP_400_BAD_REQUEST
    ELSE IF rating_data.provider_id # provider_id THEN HTTP_400_BAD_REQUEST
    ELSE HTTP_200_OK

\* rate_precheck without the lookup of an existing rating
rate_precheck_no_lookup(bs, rs, booking_id, rating_data, current_user) ==
    IF rate_booking_check(bs, booking_id, current_user) # HTTP_200_OK
    THEN rate_booking_check(bs, booking_id, current_user)
    ELSE rate_payload_check(booking_id, bs[booking_id].provider_id, rating_data,
                            current_user)

\* the checks of rate_booking before its insert, in the handler's order: the
\* response code of the first one that fails, or 200
rate_precheck(bs, rs, booking_id, rating_data, current_user) ==
    IF rate_booking_check(bs, booking_id, current_user) # HTTP_200_OK
    THEN rate_booking_check(bs, booking_id, current_user)
    ELSE IF Rated(rs, booking_id) THEN HTTP_409_CONFLICT
    ELSE rate_payload_check(booking_id, bs[booking_id].provider_id, rating_data,
                            current_user)

\* the provider update of rate_booking: skipped when the provider is gone
rate_provider_update(provs, provider_id, score) ==
    IF provider_id \in DOMAIN provs
    THEN [provs EXCEPT ![provider_id] = fold_rating(provs[provider_id], score)]
    ELSE provs

rate_booking(bs, rs, provs, booking_id, rating_data, current_user) ==
    LET pre == rate_precheck(bs, rs, booking_id, rating_data, current_user) IN
    IF pre # HTTP_200_OK
    THEN [code |-> pre, ratings |-> rs, providers |-> provs]
    ELSE [code |-> HTTP_200_OK,
          ratings |-> Append(rs, rating_data),
          providers |-> rate_provider_update(provs, bs[booking_id].provider_id,
                                             rating_data.rating)]

----------------------------------------------------------------------------
(* verify_provider: PUT /admin/providers/{provider_id}/verify *)

\* verify_precheck without the test of a decision already taken
verify_precheck_any_status(provs, provider_id, current_user) ==
    IF current_user.role # ADMIN THEN HTTP_403_FORBIDDEN
    ELSE IF provider_id \notin DOMAIN provs THEN HTTP_404_NOT_FOUND
    ELSE HTTP_200_OK

\* the checks of verify_provider before its update: the response code of the
\* first one that fails, or 200
verify_precheck(provs, provider_id, current_user) ==
    IF current_user.role # ADMIN THEN HTTP_403_FORBIDDEN
    ELSE IF provider_id \notin DOMAIN provs THEN HTTP_404_NOT_FOUND
    ELSE IF provs[provider_id].verification_status \in {"verified", "rejected"}
         THEN HTTP_400_BAD_REQUEST
    ELSE HTTP_200_OK

\* update_data applied by update_one
verify_update(provider, verification_request) ==
    [provider EXCEPT
        !.is_verified = verification_request.verified,
        !.verification_status = IF verification_request.verified THEN "verified"
                                ELSE "rejected"]

verify_provider(provs, provider_id, verification_request, current_user) ==
    LET pre == verify_precheck(provs, provider_id, current_user) IN
    IF pre # HTTP_200_OK THEN [code |-> pre, providers |-> provs]
    ELSE [code |-> HTTP_200_OK,
          providers |-> [provs EXCEPT ![provider_id] =
                             verify_update(@, verification_request)]]

----------------------------------------------------------------------------
(* whatsapp_webhook: POST /whatsapp/webhook *)

DEFAULT_ERROR_REPLY == "Sorry, I am having trouble processing your request right now. Please try again in a moment."

GREETING_REPLY == "I received your message. How can I help you today?"

\* texts an AgentResponse may carry (None: no response attribute set)
JsonHi == "{\"message\": \" Hi \"}"
JsonEmptyMessage == "{\"message\": \"\"}"
JsonNoMessage == "{\"status\": 1}"
JsonBroken == "{oops"

AgentTexts == {None, "   ", " Hello ", JsonHi, JsonEmptyMessage, JsonNoMessage, JsonBroken}

\* texts of an inbound message
MessageTexts == {"", "   ", " need a plumber "}

\* str.strip() on the texts of the model
strip(s) ==
    CASE s = "   " -> ""
      [] s = " Hello " -> "Hello"
      [] s = " Hi " -> "Hi"
      [] s = " need a plumber " -> "need a plumber"
      [] OTHER -> s

\* str.startswith("{")
startswith_brace(s) == s \in {JsonHi, JsonEmptyMessage, JsonNoMessage, JsonBroken}

JSONDecodeError == "JSONDecodeError"

\* json.loads(raw_text).get("message"), or JSONDecodeError
json_message(s) ==
    CASE s = JsonHi -> " Hi "
      [] s = JsonEmptyMessage -> ""
      [] s = JsonNoMessage -> None
      [] OTHER -> JSONDecodeError

\* what invoke_agent does: it raises, or returns an AgentResponse
AgentRaises == [raises |-> TRUE, success |-> FALSE, response |-> None]

AgentOutcomes ==
    {AgentRaises} \cup [raises : {FALSE}, success : BOOLEAN, response : AgentTexts]

\* the outcomes the webhook specifications draw from: a raise, a failure, and
\* successes with a blank, a plain and a JSON-wrapped text
WebhookAgentOutcomes ==
    { a \in AgentOutcomes :
        \/ a.raises
        \/ ~a.success /\ a.response = None
        \/ a.success /\ a.response \in {"   ", " Hello ", JsonHi} }

_normalize_agent_reply(agent_response) ==
    IF ~agent_response.success THEN DEFAULT_ERROR_REPLY
    ELSE LET raw_text == IF agent_response.response = None THEN ""
                         ELSE strip(agent_response.response)
             candidate == json_message(raw_text)
         IN IF raw_text = "" THEN GREETING_REPLY
            ELSE IF /\ startswith_brace(raw_text)
                    /\ candidate \notin {JSONDecodeError, None}
                    /\ strip(candidate) # ""
                 THEN strip(candidate)
            ELSE raw_text

\* the dedup key of a message and of a stored record
Sources == {"whatsapp", "sms"}
MessageIds == {"msg-1", "msg-2"}
Keys == Sources \X MessageIds

KeyOf(message) == <<message.source, message.messageId>>

\* WhatsAppMessage payloads
WhatsAppMessages == [source : Sources, messageId : MessageIds, message : MessageTexts]

\* db.conversations.find_one({"source": ..., "message_id": ...}): the position
\* of the first record of the key, or 0
find_conversation(convs, message) ==
    IF \E i \in Ids(convs) : /\ convs[i].source = message.source
                             /\ convs[i].message_id = message.messageId
    THEN CHOOSE i \in Ids(convs) :
             /\ convs[i].source = message.source
             /\ convs[i].message_id = message.messageId
             /\ \A j \in 1..(i - 1) : ~(/\ convs[j].source = message.source
                                        /\ convs[j].message_id = message.messageId)
    ELSE 0

\* the record inserted for a new message
conversation_doc(message) ==
    [source |-> message.source,
     message_id |-> message.messageId,
     response |-> None,
     processing_status |-> "received"]

\* existing_reply without the `or DEFAULT_ERROR_REPLY`
existing_reply_as_stored(doc) == doc.response

\* `existing_conversation.get("response") or DEFAULT_ERROR_REPLY`
existing_reply(doc) ==
    IF doc.response \in {None, ""} THEN DEFAULT_ERROR_REPLY ELSE doc.response

WebhookResponse(code, success, reply_text, deduplicated, convs, invoked) ==
    [code |-> code, success |-> success, reply_text |-> reply_text,
     deduplicated |-> deduplicated, conversations |-> convs, invoked |-> invoked]

\* completed_doc without the response field of the $set
completed_doc_no_response(doc, reply_text) ==
    [doc EXCEPT !.processing_status = "completed"]

\* failed_doc without the $set of the except path: the record stays as inserted
failed_doc_no_update(doc) == doc

\* the record after the update of the normal path / of the except path
completed_doc(doc, reply_text) ==
    [doc EXCEPT !.response = reply_text, !.processing_status = "completed"]

failed_doc(doc) ==
    [doc EXCEPT !.response = DEFAULT_ERROR_REPLY, !.processing_status = "failed"]

\* a blank test that lets every text through
is_blank_never(text) == FALSE

\* `not message.message or not message.message.strip()`
is_blank(text) == text = "" \/ strip(text) = ""

whatsapp_webhook(convs, message, agent) ==
    LET existing == find_conversation(convs, message)
        conversation_id == Len(convs) + 1
        inserted == Append(convs, conversation_doc(message))
    IN IF is_blank(message.message)
       THEN WebhookResponse(HTTP_400_BAD_REQUEST, FALSE, None, FALSE, convs, FALSE)
       ELSE IF existing # 0
       THEN WebhookResponse(HTTP_200_OK, TRUE, existing_reply(convs[existing]),
                            TRUE, convs, FALSE)
       ELSE IF agent.raises
       THEN WebhookResponse(HTTP_200_OK, FALSE, DEFAULT_ERROR_REPLY, FALSE,
                [inserted EXCEPT ![conversation_id] = failed_doc(@)], TRUE)
       ELSE WebhookResponse(HTTP_200_OK, TRUE, _normalize_agent_reply(agent), FALSE,
                [inserted EXCEPT ![conversation_id] =
                     completed_doc(@, _normalize_agent_reply(agent))], TRUE)

----------------------------------------------------------------------------
(* Requests *)

\* BookingCreate payloads
BookingCreates ==
    [customer_id : CustomerIds, provider_id : ProviderIds,
     date : DateInputs, time : TimeInputs]

\* booking ids a path may carry: the stored ones and one that is not
PathIds == 1..(Len(bookings) + 1)

\* the status query parameter of update_booking_status
StatusInputs == valid_statuses \cup {"done"}

\* BookingCancellationRequest payloads
CancellationRequests ==
    [action : {"cancel", "reschedule"},
     new_date : DateInputs \cup {None},
     new_time : {"10:00", "14:00", None}]

\* RatingCreate scores (the model keeps the two ends of 1..5)
Scores == {1, 5}

\* RatingCreate payloads for a request on path id booking_id: the payload's
\* booking_id is that id or another one
RatingCreates(booking_id) ==
    [booking_id : {booking_id, booking_id + 1}, customer_id : CustomerIds,
     provider_id : {"p1", "p2"}, rating : Scores]

NoResult == [op |-> "none", code |-> 0]

----------------------------------------------------------------------------
(* Initial state: empty collections but for the provider directory *)

InitProviders ==
    [p \in {"p1", "p2"} |->
        [user_id |-> IF p = "p1" THEN "u1" ELSE "u2",
         is_verified |-> (p = "p1"),
         verification_status |-> IF p = "p1" THEN "verified" ELSE "pending",
         rating |-> 0,
         total_ratings |-> 0]]

Init ==
    /\ bookings = <<>>
    /\ ratings = <<>>
    /\ providers = InitProviders
    /\ conversations = <<>>
    /\ invocations = [k \in Keys |-> 0]
    /\ first_reply = [k \in Keys |-> None]
    /\ result = NoResult
    /\ tasks = <<>>

----------------------------------------------------------------------------
(* Spec: each request runs alone, from its first line to its response *)

CreateBookingCall(booking, current_user) ==
    LET r == create_booking(bookings, providers, booking, current_user) IN
    /\ r.code = HTTP_200_OK => Len(bookings) < MaxBookings
    /\ bookings' = r.bookings
    /\ result' = [op |-> "create_booking", code |-> r.code]
    /\ UNCHANGED <<ratings, providers, conversations, invocations, first_reply, tasks>>

CreateBooking ==
    \E booking \in BookingCreates, current_user \in Users :
        CreateBookingCall(booking, current_user)

UpdateBookingStatusCall(booking_id, status, current_user) ==
    LET r == update_booking_status(bookings, providers, booking_id, status,
                                   current_user) IN
    /\ bookings' = r.bookings
    /\ result' = [op |-> "update_booking_status", code |-> r.code]
    /\ UNCHANGED <<ratings, providers, conversations, invocations, first_reply, tasks>>

UpdateBookingStatus ==
    \E booking_id \in PathIds, status \in StatusInputs, current_user \in Users :
        UpdateBookingStatusCall(booking_id, status, current_user)

CancelBookingCall(booking_id, req, current_user) ==
    LET r == cancel_booking(bookings, booking_id, req, current_user) IN
    /\ bookings' = r.bookings
    /\ result' = [op |-> "cancel_booking", code |-> r.code]
    /\ UNCHANGED <<ratings, providers, conversations, invocations, first_reply, tasks>>

CancelBooking ==
    \E booking_id \in PathIds, req \in CancellationRequests, current_user \in Users :
        CancelBookingCall(booking_id, req, current_user)

RateBookingCall(booking_id, rating_data, current_user) ==
    LET r == rate_booking(bookings, ratings, providers, booking_id,
                          rating_data, current_user) IN
    /\ r.code = HTTP_200_OK => Len(ratings) < MaxRatings
    /\ ratings' = r.ratings
    /\ providers' = r.providers
    /\ result' = [op |-> "rate_booking", code |-> r.code]
    /\ UNCHANGED <<bookings, conversations, invocations, first_reply, tasks>>

RateBooking ==
    \E booking_id \in PathIds, current_user \in Users :
      \E rating_data \in RatingCreates(booking_id) :
        RateBookingCall(booking_id, rating_data, current_user)

Next == CreateBooking \/ UpdateBookingStatus \/ CancelBooking

Spec == Init /\ [][Next]_vars

----------------------------------------------------------------------------
(* SpecRating: ratings of bookings that were carried to completed.  The     *)
(* store starts with RatedBookings completed bookings of provider p1, owned *)
(* by c1 and c2 in turn; requests run alone.                               *)

CompletedBooking(i) ==
    [customer_id |-> IF i % 2 = 1 THEN "c1" ELSE "c2",
     provider_id |-> "p1",
     date |-> "2099-01-01",
     time |-> IF i % 2 = 1 THEN "10:00" ELSE "14:00",
     status |-> COMPLETED]

InitRating ==
    /\ bookings = [i \in 1..RatedBookings |-> CompletedBooking(i)]
    /\ ratings = <<>>
    /\ providers = InitProviders
    /\ conversations = <<>>
    /\ invocations = [k \in Keys |-> 0]
    /\ first_reply = [k \in Keys |-> None]
    /\ result = NoResult
    /\ tasks = <<>>

NextRating == UpdateBookingStatus \/ RateBooking

SpecRating == InitRating /\ [][NextRating]_vars

----------------------------------------------------------------------------
(* SpecAggregate: one provider rated again and again.  The store starts     *)
(* with AggregateRatings completed bookings of provider p1; each step is a  *)
(* rate_booking request, run alone, by the customer of the next unrated     *)
(* booking, with any score of 1..5.                                         *)

\* models.py: RatingBase.rating, ge=1, le=5
RatingScores == 1..5

InitAggregate ==
    /\ bookings = [i \in 1..AggregateRatings |-> CompletedBooking(i)]
    /\ ratings = <<>>
    /\ providers = InitProviders
    /\ conversations = <<>>
    /\ invocations = [k \in Keys |-> 0]
    /\ first_reply = [k \in Keys |-> None]
    /\ result = NoResult
    /\ tasks = <<>>

RateNextBooking ==
    \E score \in RatingScores :
        LET booking_id == Len(ratings) + 1 IN
        /\ booking_id <= AggregateRatings
        /\ LET booking == bookings[booking_id]
               current_user == [id |-> booking.customer_id, role |-> CUSTOMER]
               rating_data == [booking_id |-> booking_id,
                               customer_id |-> booking.customer_id,
                               provider_id |-> booking.provider_id,
                               rating |-> score]
               r == rate_booking(bookings, ratings, providers, booking_id,
                                 rating_data, current_user)
           IN /\ ratings' = r.ratings
              /\ providers' = r.providers
              /\ result' = [op |-> "rate_booking", code |-> r.code]
        /\ UNCHANGED <<bookings, conversations, invocations, first_reply, tasks>>

NextAggregate == RateNextBooking

SpecAggregate == InitAggregate /\ [][NextAggregate]_vars

----------------------------------------------------------------------------
(* SpecVerify: the admin decides on provider applications while customers   *)
(* book; requests run alone.  Both providers start as register_provider     *)
(* leaves them: not verified, verification pending.                         *)

\* ProviderVerificationRequest payloads
VerificationRequests == [verified : BOOLEAN]

\* the provider directory with every application pending
PendingProviders ==
    [p \in DOMAIN InitProviders |->
        [InitProviders[p] EXCEPT !.is_verified = FALSE,
                                 !.verification_status = "pending"]]

InitVerify ==
    /\ bookings = <<>>
    /\ ratings = <<>>
    /\ providers = PendingProviders
    /\ conversations = <<>>
    /\ invocations = [k \in Keys |-> 0]
    /\ first_reply = [k \in Keys |-> None]
    /\ result = NoResult
    /\ tasks = <<>>

VerifyProviderCall(provider_id, verification_request, current_user) ==
    LET r == verify_provider(providers, provider_id, verification_request,
                             current_user) IN
    /\ providers' = r.providers
    /\ result' = [op |-> "verify_provider", code |-> r.code]
    /\ UNCHANGED <<bookings, ratings, conversations, invocations, first_reply, tasks>>

VerifyProvider ==
    \E provider_id \in ProviderIds, verification_request \in VerificationRequests,
       current_user \in Users :
        VerifyProviderCall(provider_id, verification_request, current_user)

NextVerify == VerifyProvider \/ CreateBooking

SpecVerify == InitVerify /\ [][NextVerify]_vars

----------------------------------------------------------------------------
(* SpecRateFaults: rate_booking requests, run alone, in which a store call  *)
(* may raise.  The handler's `except Exception` answers 500; what the calls *)
(* before the failing one wrote stays written.                              *)

\* the store calls of rate_booking that follow its checks
StoreFaults ==
    {"ratings.insert_one", "service_providers.find_one",
     "service_providers.update_one"}

\* rate_booking when the store call `fault` raises once it is reached
rate_booking_failing(bs, rs, provs, booking_id, rating_data, current_user, fault) ==
    LET pre == rate_precheck(bs, rs, booking_id, rating_data, current_user) IN
    IF pre # HTTP_200_OK
    THEN [code |-> pre, ratings |-> rs, providers |-> provs]
    ELSE IF fault = "ratings.insert_one"
    THEN [code |-> HTTP_500_INTERNAL_SERVER_ERROR, ratings |-> rs, providers |-> provs]
    ELSE IF \/ fault = "service_providers.find_one"
            \/ bs[booking_id].provider_id \in DOMAIN provs
    THEN [code |-> HTTP_500_INTERNAL_SERVER_ERROR,
          ratings |-> Append(rs, rating_data), providers |-> provs]
    ELSE [code |-> HTTP_200_OK, ratings |-> Append(rs, rating_data),
          providers |-> provs]

RateBookingFailingCall(booking_id, rating_data, current_user, fault) ==
    LET r == rate_booking_failing(bookings, ratings, providers, booking_id,
                                  rating_data, current_user, fault) IN
    /\ Len(r.ratings) <= MaxRatings
    /\ ratings' = r.ratings
    /\ providers' = r.providers
    /\ result' = [op |-> "rate_booking", code |-> r.code]
    /\ UNCHANGED <<bookings, conversations, invocations, first_reply, tasks>>

RateBookingFailing ==
    \E booking_id \in PathIds, current_user \in Users, fault \in StoreFaults :
      \E rating_data \in RatingCreates(booking_id) :
        RateBookingFailingCall(booking_id, rating_data, current_user, fault)

NextRateFaults == RateBooking \/ RateBookingFailing

SpecRateFaults == InitRating /\ [][NextRateFaults]_vars

----------------------------------------------------------------------------
(* SpecWebhook: deliveries handled one at a time *)

WhatsappWebhookCall(message, agent) ==
    LET r == whatsapp_webhook(conversations, message, agent)
        k == KeyOf(message)
    IN /\ Len(r.conversations) <= MaxConversations
       /\ conversations' = r.conversations
       /\ invocations' = IF r.invoked THEN [invocations EXCEPT ![k] = @ + 1]
                         ELSE invocations
       /\ first_reply' = IF Len(r.conversations) > Len(conversations)
                            /\ first_reply[k] = None
                         THEN [first_reply EXCEPT ![k] = r.reply_text]
                         ELSE first_reply
       /\ result' = [op |-> "whatsapp_webhook", code |-> r.code,
                     success |-> r.success, reply_text |-> r.reply_text,
                     deduplicated |-> r.deduplicated]
       /\ UNCHANGED <<bookings, ratings, providers, tasks>>

WhatsappWebhook ==
    \E message \in WhatsAppMessages, agent \in WebhookAgentOutcomes :
        WhatsappWebhookCall(message, agent)

NextWebhook == WhatsappWebhook

SpecWebhook == Init /\ [][NextWebhook]_vars

----------------------------------------------------------------------------
(* SpecCreateRace: create_booking and cancel_booking requests in flight     *)
(* together.  A request is a task; each action is the code between two      *)
(* awaits of its handler, and other tasks may run between any two of them.  *)
(* The store starts with one pending booking of c1 (p1, 2099-01-01 10:00).  *)

TaskIds == 1..RaceTasks

IdleTask == [pc |-> "idle"]

Done(t) == tasks[t].pc = "done"

\* the requests of the race: customers c1 and c2, provider p1, future slots
RaceUsers == { u \in Users : u.role = CUSTOMER }

RaceBookingCreates ==
    { b \in BookingCreates :
        b.provider_id = "p1" /\ b.date = "2099-01-01" /\ b.customer_id = "c1" }

RaceCancellationRequests ==
    { r \in CancellationRequests :
        r.new_date \in {None, "2099-01-01"} /\ r.action = "reschedule" }

InitCreateRace ==
    /\ bookings = << booking_doc([provider_id |-> "p1", date |-> "2099-01-01",
                                  time |-> "10:00"], [id |-> "c1"]) >>
    /\ ratings = <<>>
    /\ providers = InitProviders
    /\ conversations = <<>>
    /\ invocations = [k \in Keys |-> 0]
    /\ first_reply = [k \in Keys |-> None]
    /\ result = NoResult
    /\ tasks = [t \in TaskIds |-> IdleTask]

Finish(t, code) ==
    /\ tasks' = [tasks EXCEPT ![t].pc = "done", ![t].code = code]
    /\ result' = [op |-> tasks[t].op, code |-> code]

\* create_booking up to its first await: the role check
BeginCreate(t) ==
    \E booking \in RaceBookingCreates, current_user \in RaceUsers :
        /\ tasks[t].pc = "idle"
        /\ tasks' = [tasks EXCEPT ![t] =
               [pc |-> "create_find_provider", op |-> "create_booking",
                user |-> current_user, req |-> booking, id |-> 0, code |-> 0]]
        /\ UNCHANGED <<bookings, ratings, providers, conversations, invocations,
                       first_reply, result>>

\* await db.service_providers.find_one, then the date checks
CreateFindProvider(t) ==
    /\ tasks[t].pc = "create_find_provider"
    /\ LET pre == create_precheck(providers, tasks[t].req, tasks[t].user) IN
       IF pre # HTTP_200_OK
       THEN Finish(t, pre)
       ELSE /\ tasks' = [tasks EXCEPT ![t].pc = "create_lookup"]
            /\ UNCHANGED result
    /\ UNCHANGED <<bookings, ratings, providers, conversations, invocations,
                   first_reply>>

\* await db.bookings.find_one: the conflict lookup
CreateLookup(t) ==
    /\ tasks[t].pc = "create_lookup"
    /\ IF create_conflict(bookings, tasks[t].req.provider_id, tasks[t].req.date,
                          tasks[t].req.time)
       THEN Finish(t, HTTP_409_CONFLICT)
       ELSE /\ tasks' = [tasks EXCEPT ![t].pc = "create_insert"]
            /\ UNCHANGED result
    /\ UNCHANGED <<bookings, ratings, providers, conversations, invocations,
                   first_reply>>

\* await db.bookings.insert_one, then the response
CreateInsert(t) ==
    /\ tasks[t].pc = "create_insert"
    /\ bookings' = Append(bookings, booking_doc(tasks[t].req, tasks[t].user))
    /\ tasks' = [tasks EXCEPT ![t].pc = "done", ![t].code = HTTP_200_OK,
                              ![t].id = Len(bookings) + 1]
    /\ result' = [op |-> "create_booking", code |-> HTTP_200_OK]
    /\ UNCHANGED <<ratings, providers, conversations, invocations, first_reply>>

BeginCancel(t) ==
    \E booking_id \in Ids(bookings), req \in RaceCancellationRequests,
       current_user \in RaceUsers :
        /\ tasks[t].pc = "idle"
        /\ tasks' = [tasks EXCEPT ![t] =
               [pc |-> "cancel_find", op |-> "cancel_booking",
                user |-> current_user, req |-> req, id |-> booking_id, code |-> 0,
                time |-> None]]
        /\ UNCHANGED <<bookings, ratings, providers, conversations, invocations,
                       first_reply, result>>

\* await db.bookings.find_one({"_id": booking_id}), then the checks up to the
\* conflict lookup; the task keeps the time of the document it read
CancelFind(t) ==
    /\ tasks[t].pc = "cancel_find"
    /\ LET pre == cancel_precheck(bookings, tasks[t].id, tasks[t].req, tasks[t].user) IN
       IF pre # HTTP_200_OK
       THEN Finish(t, pre)
       ELSE /\ tasks' = [tasks EXCEPT
                   ![t].pc = IF tasks[t].req.new_date # None THEN "cancel_lookup"
                             ELSE "cancel_update",
                   ![t].time = time_or_existing(tasks[t].req.new_time,
                                                bookings[tasks[t].id])]
            /\ UNCHANGED result
    /\ UNCHANGED <<bookings, ratings, providers, conversations, invocations,
                   first_reply>>

\* await db.bookings.find_one: the conflict lookup of the reschedule branch
CancelLookup(t) ==
    /\ tasks[t].pc = "cancel_lookup"
    /\ IF reschedule_conflict(bookings, tasks[t].id, tasks[t].req.new_date,
                              tasks[t].time)
       THEN Finish(t, HTTP_409_CONFLICT)
       ELSE /\ tasks' = [tasks EXCEPT ![t].pc = "cancel_update"]
            /\ UNCHANGED result
    /\ UNCHANGED <<bookings, ratings, providers, conversations, invocations,
                   first_reply>>

\* await db.bookings.update_one, the re-read of the booking and the response
CancelUpdate(t) ==
    /\ tasks[t].pc = "cancel_update"
    /\ bookings' = [bookings EXCEPT ![tasks[t].id] = cancel_update(@, tasks[t].req)]
    /\ Finish(t, HTTP_200_OK)
    /\ UNCHANGED <<ratings, providers, conversations, invocations, first_reply>>

NextCreateRace ==
    \E t \in TaskIds :
        \/ BeginCreate(t)
        \/ CreateFindProvider(t)
        \/ CreateLookup(t)
        \/ CreateInsert(t)
        \/ BeginCancel(t)
        \/ CancelFind(t)
        \/ CancelLookup(t)
        \/ CancelUpdate(t)

SpecCreateRace == InitCreateRace /\ [][NextCreateRace]_vars

----------------------------------------------------------------------------
(* SpecRateRace: rate_booking requests in flight together, on the completed *)
(* bookings of InitRating.                                                  *)

InitRateRace ==
    /\ bookings = [i \in 1..RatedBookings |-> CompletedBooking(i)]
    /\ ratings = <<>>
    /\ providers = InitProviders
    /\ conversations = <<>>
    /\ invocations = [k \in Keys |-> 0]
    /\ first_reply = [k \in Keys |-> None]
    /\ result = NoResult
    /\ tasks = [t \in TaskIds |-> IdleTask]

\* the customer of a booking rates it, with a payload that names the booking,
\* the customer and the provider
BeginRate(t) ==
    \E booking_id \in Ids(bookings), score \in Scores :
        /\ tasks[t].pc = "idle"
        /\ tasks' = [tasks EXCEPT ![t] =
               [pc |-> "rate_find_booking", op |-> "rate_booking",
                user |-> [id |-> bookings[booking_id].customer_id, role |-> CUSTOMER],
                req |-> [booking_id |-> booking_id,
                         customer_id |-> bookings[booking_id].customer_id,
                         provider_id |-> bookings[booking_id].provider_id,
                         rating |-> score],
                id |-> booking_id, code |-> 0,
                provider_id |-> None, current_rating |-> 0, current_total |-> 0]]
        /\ UNCHANGED <<bookings, ratings, providers, conversations, invocations,
                       first_reply, result>>

\* await db.bookings.find_one, then the owner and status checks; the task
\* keeps the provider_id of the document it read
RateFindBooking(t) ==
    /\ tasks[t].pc = "rate_find_booking"
    /\ LET pre == rate_booking_check(bookings, tasks[t].id, tasks[t].user) IN
       IF pre # HTTP_200_OK
       THEN Finish(t, pre)
       ELSE /\ tasks' = [tasks EXCEPT ![t].pc = "rate_find_rating",
                             ![t].provider_id = bookings[tasks[t].id].provider_id]
            /\ UNCHANGED result
    /\ UNCHANGED <<bookings, ratings, providers, conversations, invocations,
                   first_reply>>

\* await db.ratings.find_one, then the payload checks
RateFindRating(t) ==
    /\ tasks[t].pc = "rate_find_rating"
    /\ LET pre == rate_payload_check(tasks[t].id, tasks[t].provider_id,
                                     tasks[t].req, tasks[t].user) IN
       IF Rated(ratings, tasks[t].id)
       THEN Finish(t, HTTP_409_CONFLICT)
       ELSE IF pre # HTTP_200_OK
       THEN Finish(t, pre)
       ELSE /\ tasks' = [tasks EXCEPT ![t].pc = "rate_insert"]
            /\ UNCHANGED result
    /\ UNCHANGED <<bookings, ratings, providers, conversations, invocations,
                   first_reply>>

\* await db.ratings.insert_one
RateInsert(t) ==
    /\ tasks[t].pc = "rate_insert"
    /\ ratings' = Append(ratings, tasks[t].req)
    /\ tasks' = [tasks EXCEPT ![t].pc = "rate_find_provider"]
    /\ UNCHANGED <<bookings, providers, conversations, invocations, first_reply,
                   result>>

\* await db.service_providers.find_one: the task keeps the rating and the
\* total_ratings it read
RateFindProvider(t) ==
    /\ tasks[t].pc = "rate_find_provider"
    /\ IF tasks[t].provider_id \in DOMAIN providers
       THEN /\ tasks' = [tasks EXCEPT
                   ![t].pc = "rate_update_provider",
                   ![t].current_rating = providers[tasks[t].provider_id].rating,
                   ![t].current_total = providers[tasks[t].provider_id].total_ratings]
            /\ UNCHANGED result
       ELSE Finish(t, HTTP_200_OK)
    /\ UNCHANGED <<bookings, ratings, providers, conversations, invocations,
                   first_reply>>

\* await db.service_providers.update_one with the values computed from what
\* the task read, then the response
RateUpdateProvider(t) ==
    /\ tasks[t].pc = "rate_update_provider"
    /\ providers' = [providers EXCEPT ![tasks[t].provider_id] =
           [@ EXCEPT !.rating = fold_rating([rating |-> tasks[t].current_rating,
                                             total_ratings |-> tasks[t].current_total],
                                            tasks[t].req.rating).rating,
                     !.total_ratings = tasks[t].current_total + 1]]
    /\ Finish(t, HTTP_200_OK)
    /\ UNCHANGED <<bookings, ratings, conversations, invocations, first_reply>>

NextRateRace ==
    \E t \in TaskIds :
        \/ BeginRate(t)
        \/ RateFindBooking(t)
        \/ RateFindRating(t)
        \/ RateInsert(t)
        \/ RateFindProvider(t)
        \/ RateUpdateProvider(t)

SpecRateRace == InitRateRace /\ [][NextRateRace]_vars

----------------------------------------------------------------------------
(* SpecWebhookRace: deliveries handled together, from an empty collection   *)

\* the deliveries of the race: non-blank text, two keys
RaceMessages ==
    { m \in WhatsAppMessages :
        m.source = "whatsapp" /\ m.message = " need a plumber " }

InitWebhookRace ==
    /\ bookings = <<>>
    /\ ratings = <<>>
    /\ providers = InitProviders
    /\ conversations = <<>>
    /\ invocations = [k \in Keys |-> 0]
    /\ first_reply = [k \in Keys |-> None]
    /\ result = NoResult
    /\ tasks = [t \in TaskIds |-> IdleTask]

FinishWebhook(t, code, success, reply_text, deduplicated) ==
    /\ tasks' = [tasks EXCEPT ![t].pc = "done", ![t].code = code,
                              ![t].success = success, ![t].reply_text = reply_text,
                              ![t].deduplicated = deduplicated]
    /\ result' = [op |-> "whatsapp_webhook", code |-> code, success |-> success,
                  reply_text |-> reply_text, deduplicated |-> deduplicated]

\* whatsapp_webhook up to its first await: blank text is answered 400
BeginWebhook(t) ==
    \E message \in RaceMessages :
        LET blank == message.message = "" \/ strip(message.message) = "" IN
        /\ tasks[t].pc = "idle"
        /\ tasks' = [tasks EXCEPT ![t] =
               [pc |-> IF blank THEN "done" ELSE "webhook_lookup",
                op |-> "whatsapp_webhook", req |-> message, id |-> 0,
                code |-> IF blank THEN HTTP_400_BAD_REQUEST ELSE 0,
                success |-> FALSE, reply_text |-> None, deduplicated |-> FALSE]]
        /\ result' = IF blank
                     THEN [op |-> "whatsapp_webhook", code |-> HTTP_400_BAD_REQUEST,
                           success |-> FALSE, reply_text |-> None,
                           deduplicated |-> FALSE]
                     ELSE result
        /\ UNCHANGED <<bookings, ratings, providers, conversations, invocations,
                       first_reply>>

\* await db.conversations.find_one: a record of the key ends the request
WebhookLookup(t) ==
    /\ tasks[t].pc = "webhook_lookup"
    /\ LET existing == find_conversation(conversations, tasks[t].req) IN
       IF existing # 0
       THEN FinishWebhook(t, HTTP_200_OK, TRUE,
                          existing_reply(conversations[existing]), TRUE)
       ELSE /\ tasks' = [tasks EXCEPT ![t].pc = "webhook_insert"]
            /\ UNCHANGED result
    /\ UNCHANGED <<bookings, ratings, providers, conversations, invocations,
                   first_reply>>

\* await db.conversations.insert_one
WebhookInsert(t) ==
    /\ tasks[t].pc = "webhook_insert"
    /\ conversations' = Append(conversations, conversation_doc(tasks[t].req))
    /\ tasks' = [tasks EXCEPT ![t].pc = "webhook_invoke",
                              ![t].id = Len(conversations) + 1]
    /\ UNCHANGED <<bookings, ratings, providers, invocations, first_reply, result>>

\* await invoke_agent: it raises or returns, and the reply is normalized
WebhookInvoke(t) ==
    \E agent \in WebhookAgentOutcomes :
        /\ tasks[t].pc = "webhook_invoke"
        /\ invocations' = [invocations EXCEPT ![KeyOf(tasks[t].req)] = @ + 1]
        /\ tasks' = [tasks EXCEPT
               ![t].pc = IF agent.raises THEN "webhook_except" ELSE "webhook_update",
               ![t].reply_text = IF agent.raises THEN DEFAULT_ERROR_REPLY
                                 ELSE _normalize_agent_reply(agent)]
        /\ UNCHANGED <<bookings, ratings, providers, conversations, first_reply,
                       result>>

\* the first reply_text returned for the key of task t by a request that
\* inserted a record
NoteFirstReply(t) ==
    first_reply' = IF first_reply[KeyOf(tasks[t].req)] = None
                   THEN [first_reply EXCEPT ![KeyOf(tasks[t].req)] = tasks[t].reply_text]
                   ELSE first_reply

\* await db.conversations.update_one of the normal path, then the response
WebhookUpdate(t) ==
    /\ tasks[t].pc = "webhook_update"
    /\ conversations' = [conversations EXCEPT ![tasks[t].id] =
                             completed_doc(@, tasks[t].reply_text)]
    /\ FinishWebhook(t, HTTP_200_OK, TRUE, tasks[t].reply_text, FALSE)
    /\ NoteFirstReply(t)
    /\ UNCHANGED <<bookings, ratings, providers, invocations>>

\* the except path: await db.conversations.update_one, then the response
WebhookExcept(t) ==
    /\ tasks[t].pc = "webhook_except"
    /\ conversations' = [conversations EXCEPT ![tasks[t].id] = failed_doc(@)]
    /\ FinishWebhook(t, HTTP_200_OK, FALSE, DEFAULT_ERROR_REPLY, FALSE)
    /\ NoteFirstReply(t)
    /\ UNCHANGED <<bookings, ratings, providers, invocations>>

NextWebhookRace ==
    \E t \in TaskIds :
        \/ BeginWebhook(t)
        \/ WebhookLookup(t)
        \/ WebhookInsert(t)
        \/ WebhookInvoke(t)
        \/ WebhookUpdate(t)
        \/ WebhookExcept(t)

SpecWebhookRace == InitWebhookRace /\ [][NextWebhookRace]_vars

----------------------------------------------------------------------------
(* SpecVerifyRace: verify_provider requests of admins and create_booking    *)
(* requests of customers in flight together, on the application of provider *)
(* p1, pending at the start.                                                *)

VerifyTaskIds == 1..VerifyRaceTasks

RaceAdmins == { u \in Users : u.role = ADMIN }

InitVerifyRace ==
    /\ bookings = <<>>
    /\ ratings = <<>>
    /\ providers = PendingProviders
    /\ conversations = <<>>
    /\ invocations = [k \in Keys |-> 0]
    /\ first_reply = [k \in Keys |-> None]
    /\ result = NoResult
    /\ tasks = [t \in VerifyTaskIds |-> IdleTask]

\* verify_provider up to its first await: the role check
BeginVerify(t) ==
    \E verification_request \in VerificationRequests, current_user \in RaceAdmins :
        /\ tasks[t].pc = "idle"
        /\ tasks' = [tasks EXCEPT ![t] =
               [pc |-> "verify_find", op |-> "verify_provider",
                user |-> current_user, req |-> verification_request,
                id |-> "p1", code |-> 0]]
        /\ UNCHANGED <<bookings, ratings, providers, conversations, invocations,
                       first_reply, result>>

\* await db.service_providers.find_one, then the test of a decision taken
VerifyFind(t) ==
    /\ tasks[t].pc = "verify_find"
    /\ LET pre == verify_precheck(providers, tasks[t].id, tasks[t].user) IN
       IF pre # HTTP_200_OK
       THEN Finish(t, pre)
       ELSE /\ tasks' = [tasks EXCEPT ![t].pc = "verify_update"]
            /\ UNCHANGED result
    /\ UNCHANGED <<bookings, ratings, providers, conversations, invocations,
                   first_reply>>

\* await db.service_providers.update_one({"_id": provider_id}, ...): the
\* filter names the id only, so the document matches whatever its status
VerifyUpdate(t) ==
    /\ tasks[t].pc = "verify_update"
    /\ providers' = [providers EXCEPT ![tasks[t].id] =
                         verify_update(@, tasks[t].req)]
    /\ Finish(t, HTTP_200_OK)
    /\ UNCHANGED <<bookings, ratings, conversations, invocations, first_reply>>

NextVerifyRace ==
    \E t \in VerifyTaskIds :
        \/ BeginVerify(t)
        \/ VerifyFind(t)
        \/ VerifyUpdate(t)
        \/ BeginCreate(t)
        \/ CreateFindProvider(t)
        \/ CreateLookup(t)
        \/ CreateInsert(t)

SpecVerifyRace == InitVerifyRace /\ [][NextVerifyRace]_vars

----------------------------------------------------------------------------
(* SpecWebhookFaults: the deliveries of SpecWebhookRace, in which each call *)
(* of the store may raise.  An exception raised inside the handler's try    *)
(* reaches `except Exception`: the record, if one was inserted, is updated  *)
(* to failed (an update that may raise in turn, which is logged), and the   *)
(* request is answered with the fallback reply.                             *)

\* await db.conversations.find_one raises: no record was inserted by this
\* request, the except path answers without an update
WebhookLookupFails(t) ==
    /\ tasks[t].pc = "webhook_lookup"
    /\ FinishWebhook(t, HTTP_200_OK, FALSE, DEFAULT_ERROR_REPLY, FALSE)
    /\ UNCHANGED <<bookings, ratings, providers, conversations, invocations,
                   first_reply>>

\* await db.conversations.insert_one raises: as above
WebhookInsertFails(t) ==
    /\ tasks[t].pc = "webhook_insert"
    /\ FinishWebhook(t, HTTP_200_OK, FALSE, DEFAULT_ERROR_REPLY, FALSE)
    /\ UNCHANGED <<bookings, ratings, providers, conversations, invocations,
                   first_reply>>

\* await db.conversations.update_one of the normal path raises: the except
\* path runs with the id of the inserted record
WebhookUpdateFails(t) ==
    /\ tasks[t].pc = "webhook_update"
    /\ tasks' = [tasks EXCEPT ![t].pc = "webhook_except",
                              ![t].reply_text = DEFAULT_ERROR_REPLY]
    /\ UNCHANGED <<bookings, ratings, providers, conversations, invocations,
                   first_reply, result>>

\* the update_one of the except path raises: the exception is logged, the
\* record stays as it is, the request is answered with the fallback reply
WebhookExceptUpdateFails(t) ==
    /\ tasks[t].pc = "webhook_except"
    /\ FinishWebhook(t, HTTP_200_OK, FALSE, DEFAULT_ERROR_REPLY, FALSE)
    /\ NoteFirstReply(t)
    /\ UNCHANGED <<bookings, ratings, providers, conversations, invocations>>

\* the steps of request t
WebhookStep(t) ==
    \/ BeginWebhook(t)
    \/ WebhookLookup(t)
    \/ WebhookLookupFails(t)
    \/ WebhookInsert(t)
    \/ WebhookInsertFails(t)
    \/ WebhookInvoke(t)
    \/ WebhookUpdate(t)
    \/ WebhookUpdateFails(t)
    \/ WebhookExcept(t)
    \/ WebhookExceptUpdateFails(t)

NextWebhookFaults == \E t \in TaskIds : WebhookStep(t)

SpecWebhookFaults == InitWebhookRace /\ [][NextWebhookFaults]_vars

\* the same requests under a fair scheduler: a request that can take a step
\* eventually takes one
SpecWebhookFaultsFair ==
    /\ InitWebhookRace
    /\ [][NextWebhookFaults]_vars
    /\ \A t \in TaskIds : WF_vars(WebhookStep(t))

----------------------------------------------------------------------------
(* Properties of the booking lifecycle (Spec) *)

\* two bookings hold the same slot of the same provider
SameSlot(a, b) ==
    /\ a.provider_id = b.provider_id
    /\ a.date = b.date
    /\ a.time = b.time

Active(b) == b.status \in {PENDING, CONFIRMED}

Terminal(b) == b.status \in {CANCELLED, COMPLETED}

\* C2: in every state reached by create_booking, update_booking_status and
\* cancel_booking requests run one at a time, no two distinct bookings of the
\* same provider, date and time are both pending or confirmed.
C2_NoDoubleBooking ==
    \A i, j \in Ids(bookings) :
        (i # j /\ SameSlot(bookings[i], bookings[j]))
            => ~(Active(bookings[i]) /\ Active(bookings[j]))

\* C3: cancelled and completed are terminal: no request changes the status
\* of a booking that is cancelled or completed.
C3_TerminalStaysTerminal ==
    [][\A i \in Ids(bookings) :
          Terminal(bookings[i]) => bookings'[i].status = bookings[i].status]_vars

\* the edges of the booking state machine
StatusEdges ==
    { <<PENDING, CONFIRMED>>, <<CONFIRMED, COMPLETED>>,
      <<PENDING, CANCELLED>>, <<CONFIRMED, CANCELLED>> }

\* C4: an accepted update_booking_status request changes the status of its
\* booking only along one of the edges pending->confirmed,
\* confirmed->completed, pending->cancelled, confirmed->cancelled.
C4_StatusOnlyAlongEdges ==
    [][\A booking_id \in PathIds, status \in StatusInputs, current_user \in Users :
          (/\ UpdateBookingStatusCall(booking_id, status, current_user)
           /\ result'.code = HTTP_200_OK
           /\ bookings'[booking_id].status # bookings[booking_id].status)
              => <<bookings[booking_id].status, bookings'[booking_id].status>>
                     \in StatusEdges]_vars

\* the caller may not touch the booking: a customer who does not own it, or a
\* provider none of whose profiles is the booking's provider
WrongActor(booking, current_user) ==
    \/ current_user.role = CUSTOMER /\ booking.customer_id # current_user.id
    \/ /\ current_user.role = PROVIDER
       /\ booking.provider_id
              \notin get_provider_ids_for_user(providers, current_user.id)

\* C10: update_booking_status answers 404 for a missing booking, 403 for a
\* customer who does not own the booking or a provider who does not own its
\* provider_id, 400 for a status outside the four literals, and modifies no
\* booking in any of these cases.
C10_UpdateTypedErrors ==
    [][\A booking_id \in PathIds, status \in StatusInputs, current_user \in Users :
          UpdateBookingStatusCall(booking_id, status, current_user) =>
              /\ booking_id \notin Ids(bookings)
                    => result'.code = HTTP_404_NOT_FOUND /\ bookings' = bookings
              /\ (/\ booking_id \in Ids(bookings)
                  /\ WrongActor(bookings[booking_id], current_user))
                    => result'.code = HTTP_403_FORBIDDEN /\ bookings' = bookings
              /\ (/\ booking_id \in Ids(bookings)
                  /\ ~WrongActor(bookings[booking_id], current_user)
                  /\ status \notin valid_statuses)
                    => result'.code = HTTP_400_BAD_REQUEST /\ bookings' = bookings]_vars

----------------------------------------------------------------------------
(* Properties of rating (SpecRating) *)

\* C5: once a rating of a booking has been accepted, every later rate_booking
\* request for that booking is rejected, stores no second rating and leaves
\* the provider's rating and total_ratings as they are; made by the booking's
\* customer on the completed booking, it is answered 409 whatever its payload.
C5_RatingExactlyOnce ==
    \A booking_id \in Ids(bookings) :
        Rated(ratings, booking_id) =>
            \A current_user \in Users, rating_data \in RatingCreates(booking_id) :
                LET r == rate_booking(bookings, ratings, providers, booking_id,
                                      rating_data, current_user) IN
                /\ r.code # HTTP_200_OK
                /\ r.ratings = ratings
                /\ r.providers = providers
                /\ (/\ current_user.role = CUSTOMER
                    /\ bookings[booking_id].customer_id = current_user.id
                    /\ bookings[booking_id].status = COMPLETED)
                       => r.code = HTTP_409_CONFLICT

\* a second rating request was answered 409 and the first rating is stored
C5_Witness ==
    /\ result = [op |-> "rate_booking", code |-> HTTP_409_CONFLICT]
    /\ Len(ratings) = 1
    /\ providers["p1"].total_ratings = 1

----------------------------------------------------------------------------
(* Properties of the webhook (SpecWebhook) *)

RecordsOf(convs, k) ==
    { i \in Ids(convs) : <<convs[i].source, convs[i].message_id>> = k }

\* deliveries that pass the handler's input validation
NonBlankMessages == { m \in WhatsAppMessages : strip(m.message) # "" }

\* C7: once a delivery of a key has been processed and has returned, a second
\* delivery of the same (source, messageId) does not call invoke_agent, adds no
\* record for the key, and returns deduplicated = true with the reply_text the
\* first delivery returned.  (A delivery with blank text is answered 400
\* before the lookup.)
C7_DedupIdempotence ==
    \A message \in NonBlankMessages, agent \in WebhookAgentOutcomes :
        LET k == KeyOf(message)
            r == whatsapp_webhook(conversations, message, agent)
        IN RecordsOf(conversations, k) # {} =>
              /\ ~r.invoked
              /\ r.conversations = conversations
              /\ Cardinality(RecordsOf(conversations, k)) = 1
              /\ invocations[k] = 1
              /\ r.code = HTTP_200_OK
              /\ r.deduplicated
              /\ r.reply_text = first_reply[k]

\* a replay was answered with the stored reply of an agent that succeeded
C7_Witness ==
    /\ result.op = "whatsapp_webhook"
    /\ result.deduplicated
    /\ result.reply_text = "Hello"
    /\ first_reply[<<"whatsapp", "msg-1">>] = "Hello"
    /\ invocations[<<"whatsapp", "msg-1">>] = 1
    /\ Len(conversations) = 1

\* C9: when invoke_agent raises on the first delivery of a key, the record is
\* left failed with the fixed fallback reply stored and the request returns
\* success = false with that reply; every later delivery of the key returns
\* the stored fallback reply with deduplicated = true and does not call
\* invoke_agent.
C9_FailureIsTerminalForDedup ==
    \A message \in NonBlankMessages :
        LET k == KeyOf(message)
            r == whatsapp_webhook(conversations, message, AgentRaises)
            i == find_conversation(conversations, message)
        IN /\ RecordsOf(conversations, k) = {} =>
                 /\ r.code = HTTP_200_OK
                 /\ ~r.success
                 /\ r.reply_text = DEFAULT_ERROR_REPLY
                 /\ ~r.deduplicated
                 /\ Len(r.conversations) = Len(conversations) + 1
                 /\ r.conversations[Len(r.conversations)] =
                        [source |-> message.source, message_id |-> message.messageId,
                         response |-> DEFAULT_ERROR_REPLY,
                         processing_status |-> "failed"]
           /\ (i # 0 /\ conversations[i].processing_status = "failed") =>
                 \A agent \in WebhookAgentOutcomes :
                     LET q == whatsapp_webhook(conversations, message, agent) IN
                     /\ q.code = HTTP_200_OK
                     /\ q.deduplicated
                     /\ q.reply_text = DEFAULT_ERROR_REPLY
                     /\ conversations[i].response = DEFAULT_ERROR_REPLY
                     /\ ~q.invoked
                     /\ q.conversations = conversations
                     /\ invocations[k] = 1

\* a replay of a delivery whose agent call raised was answered from the record
C9_Witness ==
    /\ result.op = "whatsapp_webhook"
    /\ result.deduplicated
    /\ result.reply_text = DEFAULT_ERROR_REPLY
    /\ Len(conversations) = 1
    /\ conversations[1].processing_status = "failed"
    /\ invocations[<<conversations[1].source, conversations[1].message_id>>] = 1

----------------------------------------------------------------------------
(* Properties of requests in flight together *)

AllDone == \A t \in TaskIds : Done(t)

\* C1: however create_booking and reschedule requests for one
\* (provider_id, date, time) interleave, at most one of them ends with a
\* pending or confirmed booking on that slot: no two accepted requests leave
\* two active bookings on the same slot.
C1_OneWinnerPerSlot ==
    \A t1, t2 \in TaskIds :
        (/\ t1 # t2
         /\ Done(t1) /\ tasks[t1].code = HTTP_200_OK
         /\ Done(t2) /\ tasks[t2].code = HTTP_200_OK
         /\ tasks[t1].id # tasks[t2].id)
            => ~(/\ SameSlot(bookings[tasks[t1].id], bookings[tasks[t2].id])
                 /\ Active(bookings[tasks[t1].id])
                 /\ Active(bookings[tasks[t2].id]))

\* C6: when the rate_booking requests in flight are for distinct completed
\* bookings of one provider and all are accepted, the provider's
\* total_ratings has grown by their number once all have returned.
C6_NoLostAggregateUpdate ==
    (/\ AllDone
     /\ \A t \in TaskIds : tasks[t].code = HTTP_200_OK
     /\ \A t1, t2 \in TaskIds : t1 # t2 => tasks[t1].id # tasks[t2].id)
        => providers["p1"].total_ratings = RaceTasks

\* C8: when deliveries of one (source, message id) are handled together,
\* the key never has more than one record and invoke_agent is called at most
\* once for it.
C8_OneRecordOneInvocation ==
    \A k \in Keys :
        /\ Cardinality(RecordsOf(conversations, k)) <= 1
        /\ invocations[k] <= 1

----------------------------------------------------------------------------
(* Properties of who may do what (Spec) *)

\* the caller is a provider one of whose profiles is the booking's provider
OwningProvider(booking, current_user) ==
    /\ current_user.role = PROVIDER
    /\ booking.provider_id \in get_provider_ids_for_user(providers, current_user.id)

\* C11: an update_booking_status request with status confirmed or completed
\* made by anyone who is not a provider owning the booking's provider_id (the
\* booking's own customer included) is rejected and leaves the booking's
\* status as it was.  (Which code a rejection carries is the subject of C10;
\* the property here is that the request is not accepted.)
C11_OnlyProviderConfirmsOrCompletes ==
    [][\A booking_id \in PathIds, current_user \in Users :
         \A status \in {CONFIRMED, COMPLETED} :
          (/\ booking_id \in Ids(bookings)
           /\ ~OwningProvider(bookings[booking_id], current_user)
           /\ UpdateBookingStatusCall(booking_id, status, current_user))
              => /\ result'.code # HTTP_200_OK
                 /\ bookings'[booking_id].status = bookings[booking_id].status]_vars

\* the caller is the customer of the booking
OwningCustomer(booking, current_user) ==
    /\ current_user.role = CUSTOMER
    /\ booking.customer_id = current_user.id

\* C12: a rate_booking request is accepted only if its booking exists, is
\* completed, and the caller is the customer of the booking; a request on an
\* existing booking by anyone else is answered 403 and a request on a pending,
\* confirmed or cancelled booking is rejected, and in both cases no rating is
\* stored and the provider's rating and total_ratings are unchanged.
C12_RatingOnlyCompletedByOwner ==
    \A booking_id \in PathIds, current_user \in Users :
        \A rating_data \in RatingCreates(booking_id) :
            LET r == rate_booking(bookings, ratings, providers, booking_id,
                                  rating_data, current_user)
            IN /\ r.code = HTTP_200_OK =>
                     /\ booking_id \in Ids(bookings)
                     /\ bookings[booking_id].status = COMPLETED
                     /\ OwningCustomer(bookings[booking_id], current_user)
               /\ (/\ booking_id \in Ids(bookings)
                   /\ ~OwningCustomer(bookings[booking_id], current_user))
                     => /\ r.code = HTTP_403_FORBIDDEN
                        /\ r.ratings = ratings
                        /\ r.providers = providers
               /\ (/\ booking_id \in Ids(bookings)
                   /\ bookings[booking_id].status # COMPLETED)
                     => /\ r.code \in {HTTP_400_BAD_REQUEST, HTTP_403_FORBIDDEN}
                        /\ r.ratings = ratings
                        /\ r.providers = providers

\* a rate_booking request by its customer on a booking that is no longer
\* completed was rejected: no booking is completed, so the 400 is the answer
\* of the status test, and nothing was stored
C12_Witness ==
    /\ result = [op |-> "rate_booking", code |-> HTTP_400_BAD_REQUEST]
    /\ \A i \in Ids(bookings) : bookings[i].status # COMPLETED
    /\ ratings = <<>>
    /\ providers["p1"].total_ratings = 0

----------------------------------------------------------------------------
(* Properties of the provider aggregate (SpecAggregate) *)

\* the sum of the scores of the stored ratings
RECURSIVE SumScores(_)
SumScores(rs) == IF rs = <<>> THEN 0 ELSE rs[1].rating + SumScores(Tail(rs))

\* C13: starting from rating 0 and total_ratings 0, after any sequence of
\* accepted ratings applied one at a time the provider's stored rating is the
\* arithmetic mean of their scores rounded to 2 decimals (in hundredths).
C13_AggregateIsMean ==
    Len(ratings) > 0 =>
        /\ providers["p1"].total_ratings = Len(ratings)
        /\ providers["p1"].rating = round2(100 * SumScores(ratings), Len(ratings))

----------------------------------------------------------------------------
(* Properties of cancel_booking (Spec) *)

\* C14: cancel_booking acts by the action literal of its request.  Made by
\* the booking's customer on a pending or confirmed booking, a request with
\* action cancel leaves the booking cancelled with its date and time as they
\* were, even when it carries a new_date; a request with action reschedule
\* and no new_date is rejected and leaves the booking as it was.
C14_ActsByActionLiteral ==
    [][\A booking_id \in PathIds, req \in CancellationRequests, current_user \in Users :
          (/\ booking_id \in Ids(bookings)
           /\ OwningCustomer(bookings[booking_id], current_user)
           /\ Active(bookings[booking_id])
           /\ CancelBookingCall(booking_id, req, current_user))
              => /\ req.action = "cancel" =>
                       bookings'[booking_id] =
                           [bookings[booking_id] EXCEPT !.status = CANCELLED]
                 /\ (req.action = "reschedule" /\ req.new_date = None) =>
                       /\ result'.code # HTTP_200_OK
                       /\ bookings' = bookings]_vars

----------------------------------------------------------------------------
(* Properties of create_booking (Spec) *)

\* the error codes a create_booking request has earned: 403 for a caller who
\* is not a customer, 404 for a provider that is missing or not verified, 400
\* for a date or time that is malformed or not after now, 409 for a slot a
\* pending or confirmed booking holds
CreateFailures(booking, current_user) ==
    { c \in {HTTP_403_FORBIDDEN, HTTP_404_NOT_FOUND, HTTP_400_BAD_REQUEST,
             HTTP_409_CONFLICT} :
        \/ c = HTTP_403_FORBIDDEN /\ current_user.role # CUSTOMER
        \/ /\ c = HTTP_404_NOT_FOUND
           /\ \/ booking.provider_id \notin DOMAIN providers
              \/ ~providers[booking.provider_id].is_verified
        \/ /\ c = HTTP_400_BAD_REQUEST
           /\ \/ strptime_date(booking.date) = ValueError
              \/ strptime_time(booking.time) = ValueError
              \/ combine(strptime_date(booking.date),
                         strptime_time(booking.time)) <= now
        \/ /\ c = HTTP_409_CONFLICT
           /\ \E i \in Ids(bookings) :
                 /\ Active(bookings[i])
                 /\ bookings[i].provider_id = booking.provider_id
                 /\ bookings[i].date = booking.date
                 /\ bookings[i].time = booking.time }

\* C15: a create_booking request that has earned an error is answered with
\* the code of an error it has earned (that one when it has earned only one)
\* and leaves db.bookings as it was.
C15_FailedCreateCreatesNothing ==
    \A booking \in BookingCreates, current_user \in Users :
        LET r == create_booking(bookings, providers, booking, current_user) IN
        CreateFailures(booking, current_user) # {} =>
            /\ r.code \in CreateFailures(booking, current_user)
            /\ r.bookings = bookings

\* a create_booking request for a held slot was answered 409 and the store
\* holds the one booking it held before
C15_Witness ==
    /\ result = [op |-> "create_booking", code |-> HTTP_409_CONFLICT]
    /\ Len(bookings) = 1
    /\ Active(bookings[1])

\* C16: an accepted create_booking request adds exactly one booking, pending,
\* whose customer_id is the caller's id whatever customer_id the payload
\* carried and whose provider_id, date and time are the requested ones, and
\* modifies no other booking.
C16_CreateAddsOnePending ==
    \A booking \in BookingCreates, current_user \in Users :
        LET r == create_booking(bookings, providers, booking, current_user) IN
        r.code = HTTP_200_OK =>
            /\ Len(r.bookings) = Len(bookings) + 1
            /\ SubSeq(r.bookings, 1, Len(bookings)) = bookings
            /\ r.bookings[Len(r.bookings)] =
                   [customer_id |-> current_user.id,
                    provider_id |-> booking.provider_id,
                    date |-> booking.date,
                    time |-> booking.time,
                    status |-> PENDING]

\* two create_booking requests were accepted: each booking is pending, of
\* provider p1, in the future
C16_Witness ==
    /\ result = [op |-> "create_booking", code |-> HTTP_200_OK]
    /\ Len(bookings) = 2
    /\ bookings[2].status = PENDING
    /\ bookings[2].customer_id = "c2"
    /\ bookings[2].provider_id = "p1"
    /\ bookings[2].date = "2099-01-01"

----------------------------------------------------------------------------
(* Properties of cancel_booking, continued (Spec) *)

\* C17: a cancel_booking request on a completed or cancelled booking, with
\* action cancel or reschedule, is rejected and leaves the booking (status,
\* date, time) as it was; made by the booking's customer it is answered 400,
\* the code the handler gives a booking in the wrong state.
C17_TerminalNotCancellable ==
    \A booking_id \in Ids(bookings), req \in CancellationRequests,
       current_user \in Users :
        LET r == cancel_booking(bookings, booking_id, req, current_user) IN
        Terminal(bookings[booking_id]) =>
            /\ r.code # HTTP_200_OK
            /\ r.bookings = bookings
            /\ OwningCustomer(bookings[booking_id], current_user)
                   => r.code = HTTP_400_BAD_REQUEST

\* a cancel_booking request on a booking in a final state was answered 400:
\* every stored booking is completed or cancelled, so the 400 is the answer of
\* the status test
C17_Witness ==
    /\ result = [op |-> "cancel_booking", code |-> HTTP_400_BAD_REQUEST]
    /\ Len(bookings) = 2
    /\ bookings[1].status = COMPLETED
    /\ bookings[2].status = CANCELLED

\* C18: a cancel_booking request on a stored booking by anyone who is not a
\* customer whose id is the booking's customer_id (another customer, a
\* provider, an admin) is answered 403 and leaves the booking as it was.
C18_OnlyOwnerCancels ==
    \A booking_id \in Ids(bookings), req \in CancellationRequests,
       current_user \in Users :
        LET r == cancel_booking(bookings, booking_id, req, current_user) IN
        ~OwningCustomer(bookings[booking_id], current_user) =>
            /\ r.code = HTTP_403_FORBIDDEN
            /\ r.bookings = bookings

\* a cancel_booking request was answered 403 and the booking is still active
C18_Witness ==
    /\ result = [op |-> "cancel_booking", code |-> HTTP_403_FORBIDDEN]
    /\ Len(bookings) = 1
    /\ Active(bookings[1])

\* the reschedule request that names the booking's own date and time
OwnSlotRequests(booking) ==
    { req \in CancellationRequests :
        /\ req.action = "reschedule"
        /\ req.new_date = booking.date
        /\ req.new_time \in {booking.time, None} }

\* the slot of the booking is after now and no other pending or confirmed
\* booking of the provider holds it
OwnSlotFree(booking_id) ==
    /\ combine(strptime_date(bookings[booking_id].date),
               strptime_time(bookings[booking_id].time)) > now
    /\ \A j \in Ids(bookings) \ {booking_id} :
           ~(Active(bookings[j]) /\ SameSlot(bookings[j], bookings[booking_id]))

\* C19: rescheduling a pending or confirmed booking to its own current date
\* and time, when that instant is after now and no other active booking of
\* the provider holds it, is accepted (no 409) and leaves the booking on its
\* slot.
C19_RescheduleExcludesSelf ==
    \A booking_id \in Ids(bookings), current_user \in Users :
        (/\ Active(bookings[booking_id])
         /\ OwningCustomer(bookings[booking_id], current_user)
         /\ OwnSlotFree(booking_id))
            => \A req \in OwnSlotRequests(bookings[booking_id]) :
                   LET r == cancel_booking(bookings, booking_id, req, current_user) IN
                   /\ r.code = HTTP_200_OK
                   /\ r.bookings =
                          [bookings EXCEPT ![booking_id].status = PENDING]

\* a reschedule was accepted, and the booking it left pending can be
\* rescheduled to the slot it is on while another booking is stored
C19_Witness ==
    /\ result = [op |-> "cancel_booking", code |-> HTTP_200_OK]
    /\ Len(bookings) = 2
    /\ bookings[1].status = PENDING
    /\ OwnSlotFree(1)
    /\ \A req \in OwnSlotRequests(bookings[1]) :
           cancel_booking(bookings, 1, req,
                          [id |-> bookings[1].customer_id, role |-> CUSTOMER]).code
               = HTTP_200_OK

----------------------------------------------------------------------------
(* Properties of the webhook, continued (SpecWebhook) *)

\* C20: a delivery whose text is empty or whitespace only, for a key that has
\* no record, is answered 400, creates no record and does not call
\* invoke_agent.
C20_BlankRejectedWithoutEffect ==
    \A message \in WhatsAppMessages \ NonBlankMessages,
       agent \in WebhookAgentOutcomes :
        LET r == whatsapp_webhook(conversations, message, agent) IN
        RecordsOf(conversations, KeyOf(message)) = {} =>
            /\ r.code = HTTP_400_BAD_REQUEST
            /\ r.conversations = conversations
            /\ ~r.invoked

\* a blank delivery was answered 400 while the store was empty: nothing was
\* stored and invoke_agent was not called
C20_Witness ==
    /\ result.op = "whatsapp_webhook"
    /\ result.code = HTTP_400_BAD_REQUEST
    /\ conversations = <<>>
    /\ \A k \in Keys : invocations[k] = 0

----------------------------------------------------------------------------
(* Properties of provider verification (SpecVerify) *)

Decided(provider) == provider.verification_status \in {"verified", "rejected"}

\* C21: verify_provider is accepted only on a provider whose
\* verification_status is pending; on a provider already verified or rejected
\* it is rejected and the provider document is unchanged, so no request
\* changes the decision on a provider once it is taken.
C21_VerificationDecidedOnce ==
    [][/\ \A p \in DOMAIN providers :
              Decided(providers[p]) => providers'[p] = providers[p]
       /\ \A provider_id \in ProviderIds, verification_request \in VerificationRequests,
             current_user \in Users :
              VerifyProviderCall(provider_id, verification_request, current_user) =>
                  /\ result'.code = HTTP_200_OK =>
                         /\ provider_id \in DOMAIN providers
                         /\ providers[provider_id].verification_status = "pending"
                  /\ (/\ provider_id \in DOMAIN providers
                      /\ Decided(providers[provider_id])) =>
                         /\ result'.code # HTTP_200_OK
                         /\ providers' = providers]_vars

\* a verify_provider request was answered 400 (the answer of the test of a
\* decision already taken) with one provider verified and one rejected
C21_Witness ==
    /\ result = [op |-> "verify_provider", code |-> HTTP_400_BAD_REQUEST]
    /\ providers["p1"].verification_status = "verified"
    /\ providers["p1"].is_verified
    /\ providers["p2"].verification_status = "rejected"
    /\ ~providers["p2"].is_verified

----------------------------------------------------------------------------
(* Properties of the webhook: order of the lookup (SpecWebhook) *)

\* C22: whenever a record exists for the (source, messageId) of a delivery,
\* the delivery is answered with the record's stored reply and
\* deduplicated = true, without a call of invoke_agent, whatever its text,
\* empty and whitespace-only text included.
C22_LookupPrecedesValidation ==
    \A message \in WhatsAppMessages, agent \in WebhookAgentOutcomes :
        LET r == whatsapp_webhook(conversations, message, agent)
            i == find_conversation(conversations, message)
        IN i # 0 =>
              /\ r.code = HTTP_200_OK
              /\ r.deduplicated
              /\ r.reply_text = existing_reply(conversations[i])
              /\ ~r.invoked

----------------------------------------------------------------------------
(* Properties of deliveries handled together (SpecWebhookRace) *)

\* C23: every delivery of one (source, messageId) that has been answered
\* carries the reply text that the execution which processed the message
\* stored in the record of the key, a replay that arrived while the record
\* was still at received included.
C23_OneReplyPerKey ==
    \A t \in TaskIds :
        (Done(t) /\ tasks[t].code = HTTP_200_OK) =>
            \A i \in RecordsOf(conversations, KeyOf(tasks[t].req)) :
                conversations[i].processing_status \in {"completed", "failed"}
                    => tasks[t].reply_text = conversations[i].response

----------------------------------------------------------------------------
(* Properties of ratings submitted together (SpecRateRace) *)

\* the ratings stored for a booking
RatingsOf(rs, booking_id) == { i \in Ids(rs) : rs[i].booking_id = booking_id }

\* C25: however the steps of rate_booking requests for one completed booking
\* interleave, at most one rating is stored for the booking and the
\* provider's total_ratings grows by at most one per rated booking.
C25_OneRatingPerBookingUnderRace ==
    /\ \A booking_id \in Ids(bookings) :
           Cardinality(RatingsOf(ratings, booking_id)) <= 1
    /\ providers["p1"].total_ratings
           <= Cardinality({ b \in Ids(bookings) : Rated(ratings, b) })

----------------------------------------------------------------------------
(* Properties of rating when the store fails (SpecRateFaults) *)

\* the ratings stored for a provider
RatingsOfProvider(rs, provider_id) ==
    { i \in Ids(rs) : rs[i].provider_id = provider_id }

\* C24: whenever no rate_booking request is in progress, a provider's
\* total_ratings has grown by the number of ratings stored for the provider,
\* also when a store call inside rate_booking has failed.
C24_RatingAndAggregateAtomic ==
    \A p \in DOMAIN providers :
        providers[p].total_ratings =
            Cardinality(RatingsOfProvider(ratings, p))

----------------------------------------------------------------------------
(* Properties of the webhook when the store fails (SpecWebhookFaults) *)

\* C26: every record inserted with processing_status received eventually
\* reaches completed or failed, under a fair scheduler, whether invoke_agent
\* returns or raises and also when the update of the except path raises.
C26_NoRecordStaysReceived ==
    \A i \in 1..RaceTasks :
        [](i \in Ids(conversations)
               => <>(/\ i \in Ids(conversations)
                     /\ conversations[i].processing_status
                            \in {"completed", "failed"}))

----------------------------------------------------------------------------
(* Properties of rescheduling and of the conflict lookup (Spec) *)

\* reschedule requests that name a date
RescheduleRequests ==
    { req \in CancellationRequests :
        req.action = "reschedule" /\ req.new_date # None }

\* the time a reschedule request asks for: its new_time, or the booking's
EffectiveTime(req, booking) ==
    IF req.new_time = None THEN booking.time ELSE req.new_time

\* another pending or confirmed booking of the provider holds the slot
HeldByOther(booking_id, provider_id, date, time) ==
    \E j \in Ids(bookings) \ {booking_id} :
        /\ Active(bookings[j])
        /\ bookings[j].provider_id = provider_id
        /\ bookings[j].date = date
        /\ bookings[j].time = time

\* C28: an accepted reschedule of a pending or confirmed booking sets its date
\* to new_date, its time to new_time or leaves the time when new_time is
\* omitted (the conflict lookup then used the existing time), and sets its
\* status to pending whatever it was; customer_id and provider_id are as they
\* were and no other booking is modified.
C28_RescheduleFrame ==
    \A booking_id \in Ids(bookings), req \in RescheduleRequests,
       current_user \in Users :
        LET r == cancel_booking(bookings, booking_id, req, current_user)
            b == bookings[booking_id]
        IN (Active(b) /\ r.code = HTTP_200_OK) =>
              /\ r.bookings =
                     [bookings EXCEPT ![booking_id] =
                         [customer_id |-> b.customer_id,
                          provider_id |-> b.provider_id,
                          date |-> req.new_date,
                          time |-> EffectiveTime(req, b),
                          status |-> PENDING]]
              /\ ~HeldByOther(booking_id, b.provider_id, req.new_date,
                              EffectiveTime(req, b))

\* a reschedule was accepted and left its booking pending; the stored
\* booking, confirmed again, can be rescheduled without a new_time
C28_Witness ==
    /\ result = [op |-> "cancel_booking", code |-> HTTP_200_OK]
    /\ Len(bookings) = 2
    /\ bookings[1].status = PENDING
    /\ bookings[2].status = CONFIRMED
    /\ \E req \in RescheduleRequests :
           /\ req.new_time = None
           /\ cancel_booking(bookings, 2, req,
                  [id |-> bookings[2].customer_id, role |-> CUSTOMER]).code
                  = HTTP_200_OK

\* C29: create_booking and a reschedule that pass their other checks are
\* answered 409 exactly when another booking of the provider with the same
\* date and time is pending or confirmed: a slot whose bookings are all
\* cancelled or completed is free, and a booking at another time never
\* conflicts.
C29_OnlyActiveBookingsOccupy ==
    /\ \A booking \in BookingCreates, current_user \in Users :
           LET r == create_booking(bookings, providers, booking, current_user) IN
           create_precheck(providers, booking, current_user) = HTTP_200_OK =>
               /\ r.code \in {HTTP_200_OK, HTTP_409_CONFLICT}
               /\ r.code = HTTP_409_CONFLICT
                      <=> HeldByOther(0, booking.provider_id, booking.date,
                                      booking.time)
    /\ \A booking_id \in Ids(bookings), req \in RescheduleRequests,
          current_user \in Users :
           LET r == cancel_booking(bookings, booking_id, req, current_user)
               b == bookings[booking_id]
           IN cancel_precheck(bookings, booking_id, req, current_user)
                  = HTTP_200_OK =>
               /\ r.code \in {HTTP_200_OK, HTTP_409_CONFLICT}
               /\ r.code = HTTP_409_CONFLICT
                      <=> HeldByOther(booking_id, b.provider_id, req.new_date,
                                      EffectiveTime(req, b))

\* a create_booking request was accepted on a slot that a cancelled booking
\* of the same provider holds
C29_Witness ==
    /\ result = [op |-> "create_booking", code |-> HTTP_200_OK]
    /\ Len(bookings) = 2
    /\ bookings[1].status = CANCELLED
    /\ bookings[2].status = PENDING
    /\ SameSlot(bookings[1], bookings[2])

----------------------------------------------------------------------------
(* Properties of bookings and verification together (SpecVerifyRace) *)

\* C30: in every reachable state, however create_booking requests and the
\* verify_provider requests of admins interleave (two admins deciding on one
\* pending provider included), every stored booking names a provider whose
\* is_verified is true.
C30_BookingsNameVerifiedProviders ==
    \A i \in Ids(bookings) :
        /\ bookings[i].provider_id \in DOMAIN providers
        /\ providers[bookings[i].provider_id].is_verified

====
